---- MODULE Spec2Model ----
(***************************************************************************)
(* Model of the MCOP triad core: the StigmergyV5 trace store               *)
(* (src/src/core/stigmergyV5.ts; earlier revisions: src/unnamed/part_010), *)
(* the HolographicEtch accumulator (src/unnamed/part_010:216-267) and the  *)
(* NovaNeoEncoder (src/src/core/novaNeoEncoder.ts:83-189).  SpecPort runs  *)
(* the statements of recordTrace as steps of two concurrent callers.       *)
(* SpecInstances runs the operations on two instances of each class.       *)
(* SpecAlias keeps arrays and objects by reference, with a caller that     *)
(* writes into what it passed to recordTrace.                              *)
(*                                                                         *)
(* Numbers.  The code computes with IEEE doubles; the model computes with  *)
(* exact reals.  Vector components are small integers.  A similarity value *)
(* is kept as [n |-> a, r |-> p] and stands for a / sqrt(p) (p > 0); a     *)
(* magnitude Math.sqrt(s) is kept as its square s.  Etch vectors are in    *)
(* fixed point (units of 1/Scale) and an etch delta is the fraction        *)
(* [num |-> a, den |-> b] (b > 0).                                         *)
(* Only the comparison of the two revisions of encode follows the rounding *)
(* of the sums, in a format of MantissaBits significant bits.              *)
(*                                                                         *)
(* sha256(JSON.stringify(x)) is modelled as an injective constructor: the  *)
(* hash of x is the tuple of the serialised fields.                        *)
(***************************************************************************)
EXTENDS Integers, Sequences, FiniteSets, TLC

\* ---------------------------------------------------------------- bounds
MaxRecorded == 3      \* recordTrace calls in one behaviour
MaxCap == 2           \* largest configured maxTraces
MaxEtchCalls == 3     \* applyEtch calls in one behaviour
MaxEncodeCalls == 3   \* encode calls in one behaviour
MantissaBits == 20    \* significant bits of a rounded sum (a double has 53)
MaxByReference == 2   \* recordTrace calls in one behaviour of SpecAlias

\* ------------------------------------------------------ program constants
DefaultLimit == 5     \* getRecent(limit = 5), recent(limit = 5)
HashLen == 32         \* bytes in a SHA-256 digest
ByteMax == 255        \* (hash[i] / 255) * 2 - 1
Scale == 10           \* etch vectors are written in tenths

VARIABLES
  resonanceThreshold,  \* StigmergyV5.resonanceThreshold (readonly)
  maxTraces,           \* StigmergyV5.maxTraces (readonly)
  traces,              \* StigmergyV5.traces
  returned,            \* the traces recordTrace has returned to the caller, in call order
  confidenceFloor,     \* HolographicEtch.confidenceFloor (readonly)
  auditLog,            \* HolographicEtch.auditLog (readonly)
  etches,              \* HolographicEtch.etches
  etchCalls,           \* number of applyEtch calls made by the caller
  config,              \* the NovaNeoConfig passed to new NovaNeoEncoder
  encoder,             \* << >>, or <<fields>> of the constructed NovaNeoEncoder
  debugEnabled,        \* logger.isLevelEnabled('debug'), fixed by LOG_LEVEL
  log,                 \* the diagnostic payloads encode has built for logger.debug
  encoded,             \* the [text, tensor] pairs encode has returned, in call order
  atomic,              \* port: recordTrace runs as one critical section
  mutex,               \* port: the caller inside the critical section, or 0
  pc,                  \* port: each caller's position inside recordTrace
  local,               \* port: each caller's locals (arguments, parentHash, trace)
  stores,              \* the traces field of each of several StigmergyV5 instances
  accumulators,        \* the etches field of each of several HolographicEtch instances
  heap,                \* the objects held by reference: arrays, metadata objects, traces
  result               \* the last call: [op, arg, value, threw]

vars == <<resonanceThreshold, maxTraces, traces, returned,
          confidenceFloor, auditLog, etches, etchCalls,
          config, encoder, debugEnabled, log, encoded,
          atomic, mutex, pc, local, stores, accumulators, heap, result>>

storeVars == <<resonanceThreshold, maxTraces, traces, returned>>
etchVars == <<confidenceFloor, auditLog, etches, etchCalls>>
encVars == <<config, encoder, debugEnabled, log, encoded>>
portVars == <<atomic, mutex, pc, local>>
instVars == <<stores, accumulators>>

\* a call that returned normally has threw = NoThrow, else the error's name
NoThrow == ""

\* ------------------------------------------------------------- numbers
Min(a, b) == IF a < b THEN a ELSE b
Max(a, b) == IF a > b THEN a ELSE b

Sgn(x) == IF x > 0 THEN 1 ELSE IF x < 0 THEN -1 ELSE 0

\* the literal 0 of `{ score: 0 }` and `let bestScore = 0`
Zero == [n |-> 0, r |-> 1]
One == [n |-> 1, r |-> 1]

\* sign(x) * x^2 for x = v.n * sqrt(q): monotone in x
SSq(v, q) == Sgn(v.n) * v.n * v.n * q

\* x < y on values a / sqrt(p)
Less(x, y) == SSq(x, y.r) < SSq(y, x.r)
\* x >= y
GEq(x, y) == ~Less(x, y)
\* x === y as numbers
Same(x, y) == ~Less(x, y) /\ ~Less(y, x)

\* ------------------------------------------------------------- vectors
RECURSIVE Dot(_, _, _)
\* for (let i = 0; i < minLen; i++) dot += a[i] * b[i]
Dot(a, b, minLen) == IF minLen = 0 THEN 0 ELSE Dot(a, b, minLen - 1) + a[minLen] * b[minLen]

\* getMagnitude: Math.sqrt(sumSq) over the full vector, kept as sumSq
getMagnitude(vector) == Dot(vector, vector, Len(vector))

\* mutant: no `if (!magA || !magB) return 0`; [n |-> 0, r |-> 0] is 0 / 0
cosineWithMagnitudes_noGuard(a, b, magA, magB) ==
  [n |-> Dot(a, b, Min(Len(a), Len(b))), r |-> magA * magB]

\* cosineWithMagnitudes: 0 when a magnitude is 0, else prefix dot / (magA * magB)
cosineWithMagnitudes(a, b, magA, magB) ==
  IF magA = 0 \/ magB = 0 THEN Zero
  ELSE [n |-> Dot(a, b, Min(Len(a), Len(b))), r |-> magA * magB]

cosine(a, b) == cosineWithMagnitudes(a, b, getMagnitude(a), getMagnitude(b))

\* ------------------------------------------------------------- hashing
\* the absent value of `parentHash?` and of getMerkleRoot()
NoHash == << >>

\* metadata?: undefined, or an object; an object may hold a reference to itself
NoMeta == "undefined"
Circular == "circular"

\* JSON.stringify({ payload, parentHash }) throws a TypeError on a cyclic object
stringifyThrows(payload) == payload.metadata = Circular

\* mutant: sha256(JSON.stringify(payload)), the parent left out
merkleHash_payloadOnly(payload, parentHash) ==
  <<payload.id, payload.context, payload.synthesisVector, payload.metadata,
    payload.weight>>

\* JSON.stringify({ payload, parentHash }) then sha256: the serialised fields
merkleHash(payload, parentHash) ==
  <<payload.id, payload.context, payload.synthesisVector, payload.metadata,
    payload.weight, parentHash>>

\* ------------------------------------------------------------- store
\* mutant: reads this.traces.at(-2)?.hash
parentHashOf_offByOne(ts) == IF Len(ts) < 2 THEN NoHash ELSE ts[Len(ts) - 1].hash

\* mutant: reads this.traces[0]?.hash
parentHashOf_first(ts) == IF Len(ts) = 0 THEN NoHash ELSE ts[1].hash

\* this.traces.at(-1)?.hash as read by recordTrace
parentHashOf(ts) == IF Len(ts) = 0 THEN NoHash ELSE ts[Len(ts)].hash

\* crypto.randomUUID(): a value no earlier call returned; tokens are named
\* by their order of generation
randomUUID(used) == {Cardinality(used) + 1}

\* mutant: magnitude: synthesisMag, the norm of the other vector is cached
traceObject_cachesSynthesis(parentHash, id, clock, context, synthesisVector, metadata) ==
  LET contextMag == getMagnitude(context)
      synthesisMag == getMagnitude(synthesisVector)
      weight == cosineWithMagnitudes(context, synthesisVector, contextMag, synthesisMag)
      payload == [id |-> id, context |-> context, synthesisVector |-> synthesisVector,
                  metadata |-> metadata, weight |-> weight]
  IN [id |-> id,
      hash |-> merkleHash(payload, parentHash),
      parentHash |-> parentHash,
      context |-> context,
      synthesisVector |-> synthesisVector,
      weight |-> weight,
      metadata |-> metadata,
      timestamp |-> clock,
      magnitude |-> synthesisMag]

\* the trace object built by recordTrace
traceObject(parentHash, id, clock, context, synthesisVector, metadata) ==
  LET contextMag == getMagnitude(context)
      synthesisMag == getMagnitude(synthesisVector)
      weight == cosineWithMagnitudes(context, synthesisVector, contextMag, synthesisMag)
      payload == [id |-> id, context |-> context, synthesisVector |-> synthesisVector,
                  metadata |-> metadata, weight |-> weight]
  IN [id |-> id,
      hash |-> merkleHash(payload, parentHash),
      parentHash |-> parentHash,
      context |-> context,
      synthesisVector |-> synthesisVector,
      weight |-> weight,
      metadata |-> metadata,
      timestamp |-> clock,
      magnitude |-> contextMag]

\* recordTrace up to the push: the parent is the last resident trace's hash
newTrace(ts, id, clock, context, synthesisVector, metadata) ==
  traceObject(parentHashOf(ts), id, clock, context, synthesisVector, metadata)

\* mutant: evicts when length >= maxTraces
pushAndEvict_atCap(ts, trace, cap) ==
  LET pushed == Append(ts, trace)
  IN IF Len(pushed) >= cap THEN Tail(pushed) ELSE pushed

\* mutant: pop() instead of shift()
pushAndEvict_pop(ts, trace, cap) ==
  LET pushed == Append(ts, trace)
  IN IF Len(pushed) > cap THEN SubSeq(pushed, 1, Len(pushed) - 1) ELSE pushed

\* this.traces.push(trace); if (this.traces.length > this.maxTraces) this.traces.shift()
\* mutant: after the shift the oldest resident trace is made a new genesis
pushAndEvict_rechain(ts, trace, cap) ==
  LET pushed == Append(ts, trace)
  IN IF Len(pushed) > cap
     THEN [Tail(pushed) EXCEPT ![1].parentHash = NoHash]
     ELSE pushed

pushAndEvict(ts, trace, cap) ==
  LET pushed == Append(ts, trace)
  IN IF Len(pushed) > cap THEN Tail(pushed) ELSE pushed

\* the two statements of pushAndEvict taken one at a time:
\* this.traces.push(trace)
push(ts, trace) == Append(ts, trace)

\* mutant: this.traces.pop()
shiftIfOver_pop(ts, cap) == IF Len(ts) > cap THEN SubSeq(ts, 1, Len(ts) - 1) ELSE ts

\* if (this.traces.length > this.maxTraces) this.traces.shift()
shiftIfOver(ts, cap) == IF Len(ts) > cap THEN Tail(ts) ELSE ts

\* trace.magnitude ?? this.getMagnitude(tContext): `magnitude?` is an optional
\* field, absent when the record has no such field
traceMagnitude(trace) ==
  IF "magnitude" \in DOMAIN trace THEN trace.magnitude ELSE getMagnitude(trace.context)

\* the absent `trace?` of a ResonanceResult is << >>, a present one is <<trace>>
Miss == [score |-> Zero, trace |-> << >>]

RECURSIVE resonanceLoop_tieLast(_, _, _, _, _)
\* mutant: if (score >= bestScore)
resonanceLoop_tieLast(ts, context, queryMag, t, best) ==
  IF t > Len(ts) THEN best
  ELSE LET trace == ts[t]
           tContext == trace.context
           traceMag == traceMagnitude(trace)
           minLen == Min(Len(context), Len(tContext))
           score == [n |-> Dot(context, tContext, minLen), r |-> queryMag * traceMag]
       IN IF traceMag = 0 THEN resonanceLoop_tieLast(ts, context, queryMag, t + 1, best)
          ELSE IF GEq(score, best.score)
               THEN resonanceLoop_tieLast(ts, context, queryMag, t + 1,
                                          [score |-> score, trace |-> <<trace>>])
               ELSE resonanceLoop_tieLast(ts, context, queryMag, t + 1, best)

RECURSIVE resonanceLoop_keepsScore(_, _, _, _, _)
\* mutant: bestTrace = trace without bestScore = score
resonanceLoop_keepsScore(ts, context, queryMag, t, best) ==
  IF t > Len(ts) THEN best
  ELSE LET trace == ts[t]
           tContext == trace.context
           traceMag == traceMagnitude(trace)
           minLen == Min(Len(context), Len(tContext))
           score == [n |-> Dot(context, tContext, minLen), r |-> queryMag * traceMag]
       IN IF traceMag = 0 THEN resonanceLoop_keepsScore(ts, context, queryMag, t + 1, best)
          ELSE IF Less(best.score, score)
               THEN resonanceLoop_keepsScore(ts, context, queryMag, t + 1,
                                             [score |-> best.score, trace |-> <<trace>>])
               ELSE resonanceLoop_keepsScore(ts, context, queryMag, t + 1, best)

RECURSIVE resonanceLoop(_, _, _, _, _)
\* for (let t = 0; t < traceCount; t++) { ... if (score > bestScore) ... }
resonanceLoop(ts, context, queryMag, t, best) ==
  IF t > Len(ts) THEN best
  ELSE LET trace == ts[t]
           tContext == trace.context
           traceMag == traceMagnitude(trace)
           minLen == Min(Len(context), Len(tContext))
           score == [n |-> Dot(context, tContext, minLen), r |-> queryMag * traceMag]
       IN IF traceMag = 0 THEN resonanceLoop(ts, context, queryMag, t + 1, best)
          ELSE IF Less(best.score, score)
               THEN resonanceLoop(ts, context, queryMag, t + 1,
                                  [score |-> score, trace |-> <<trace>>])
               ELSE resonanceLoop(ts, context, queryMag, t + 1, best)

\* mutant: returns the best trace without the threshold test
getResonance_noThreshold(ts, threshold, context) ==
  LET queryMag == getMagnitude(context)
  IN IF queryMag = 0 THEN Miss
     ELSE LET best == resonanceLoop(ts, context, queryMag, 1, Miss)
          IN IF best.trace # << >> THEN best ELSE Miss

\* mutant: let bestScore = -Infinity (any score wins over the start)
getResonance_startsBelow(ts, threshold, context) ==
  LET queryMag == getMagnitude(context)
  IN IF queryMag = 0 THEN Miss
     ELSE LET best == resonanceLoop(ts, context, queryMag, 1,
                                    [score |-> [n |-> -2, r |-> 1], trace |-> << >>])
          IN IF best.trace # << >> /\ GEq(best.score, threshold) THEN best ELSE Miss

getResonance(ts, threshold, context) ==
  LET queryMag == getMagnitude(context)
  IN IF queryMag = 0 THEN Miss
     ELSE LET best == resonanceLoop(ts, context, queryMag, 1, Miss)
          IN IF best.trace # << >> /\ GEq(best.score, threshold) THEN best ELSE Miss

\* the original revision's cosine: both norms summed over the common prefix
\* for every comparison; !normA || !normB gives 0
originalCosine(a, b) ==
  LET minLen == Min(Len(a), Len(b))
      normA == Dot(a, a, minLen)
      normB == Dot(b, b, minLen)
  IN IF normA = 0 \/ normB = 0 THEN Zero
     ELSE [n |-> Dot(a, b, minLen), r |-> normA * normB]

RECURSIVE originalLoop(_, _, _, _)
\* the original revision: for (const trace of this.traces) { if (score > best.score) ... }
originalLoop(ts, context, t, best) ==
  IF t > Len(ts) THEN best
  ELSE LET trace == ts[t]
           score == originalCosine(context, trace.context)
       IN IF Less(best.score, score)
          THEN originalLoop(ts, context, t + 1, [score |-> score, trace |-> <<trace>>])
          ELSE originalLoop(ts, context, t + 1, best)

\* the original revision's getResonance
originalGetResonance(ts, threshold, context) ==
  LET best == originalLoop(ts, context, 1, Miss)
  IN IF best.trace # << >> /\ GEq(best.score, threshold) THEN best ELSE Miss

\* mutant: an empty store answers with the hash of nothing
getMerkleRoot_genesis(ts) == IF Len(ts) = 0 THEN <<"genesis">> ELSE ts[Len(ts)].hash

\* this.traces.at(-1)?.hash as read by getMerkleRoot
getMerkleRoot(ts) == IF Len(ts) = 0 THEN NoHash ELSE ts[Len(ts)].hash

\* Array.prototype.slice(start) with one argument
slice(arr, start) ==
  LET len == Len(arr)
      k == IF start < 0 THEN Max(len + start, 0) ELSE Min(start, len)
  IN SubSeq(arr, k + 1, len)

\* Array.prototype.reverse
reverse(arr) == [i \in 1..Len(arr) |-> arr[Len(arr) + 1 - i]]

\* this.traces.slice(-limit).reverse()
getRecent(ts, limit) == reverse(slice(ts, 0 - limit))

\* ------------------------------------------------------------- encoder
\* A tensor component is [n |-> a, r |-> p] = a / sqrt(p), as for similarities.
\* The byte b becomes (b / 255) * 2 - 1 = (2b - 255) / 255, that is
\* [n |-> 2b - 255, r |-> 255 * 255].

Abs(x) == IF x < 0 THEN 0 - x ELSE x

RECURSIVE SumSeq(_)
SumSeq(s) == IF Len(s) = 0 THEN 0 ELSE Head(s) + SumSeq(Tail(s))

Texts == {"", "a", "crystalline entropy", "stigmergic memory"}

\* text.length
length(text) ==
  CASE text = "" -> 0
    [] text = "a" -> 1
    [] text = "crystalline entropy" -> 19
    [] text = "stigmergic memory" -> 17

\* one hash object kept across calls: the digest depends on the calls before
sha256_sharedHasher(text) ==
  LET salt == Len(encoded)
  IN CASE text = "" -> [i \in 1..HashLen |-> 111 + ((i + salt) % HashLen)]
       [] text = "a" -> [i \in 1..HashLen |-> IF (i + salt) % 2 = 1 THEN 0 ELSE ByteMax]
       [] text = "crystalline entropy" -> [i \in 1..HashLen |-> 128 + ((i + salt) % 4)]
       [] text = "stigmergic memory" -> [i \in 1..HashLen |-> 127 - (((i + salt) * i) % 7)]

\* crypto.createHash('sha256').update(text).digest(): a fixed function of the
\* text giving HashLen bytes.  The digests stand in for the real ones: one has
\* 32 distinct bytes, one only the extreme bytes, two have short periods.
sha256(text) ==
  CASE text = "" -> [i \in 1..HashLen |-> 111 + i]
    [] text = "a" -> [i \in 1..HashLen |-> IF i % 2 = 1 THEN 0 ELSE ByteMax]
    [] text = "crystalline entropy" -> [i \in 1..HashLen |-> 128 + (i % 4)]
    [] text = "stigmergic memory" -> [i \in 1..HashLen |-> 127 - ((i * i) % 7)]

\* mutant: (hash[i] - 128) / 127.5, centred on the byte 128
signedHash_centred(hash) == [i \in 1..Len(hash) |-> 2 * (hash[i] - 128)]

\* signedHash[i] = (hash[i] / 255) * 2 - 1, in units of 1 / 255
signedHash(hash) == [i \in 1..Len(hash) |-> 2 * hash[i] - ByteMax]

\* the analytic sum of squares, in units of 1 / 255^2
sumSquares_noRemainder(signed, d) ==
  LET hashLen == Len(signed)
      hashSumSquares == SumSeq([i \in 1..hashLen |-> signed[i] * signed[i]])
      fullCycles == d \div hashLen
  IN hashSumSquares * fullCycles

sumSquares(signed, d) ==
  LET hashLen == Len(signed)
      hashSumSquares == SumSeq([i \in 1..hashLen |-> signed[i] * signed[i]])
      fullCycles == d \div hashLen
      remainder == d % hashLen
  IN hashSumSquares * fullCycles
       + SumSeq([i \in 1..remainder |-> signed[i] * signed[i]])

\* mutant: past the digest the filling loop repeats the last byte
encode_noCycle(d, norm, text) ==
  LET signed == signedHash(sha256(text))
      hashLen == Len(signed)
      ss == IF norm THEN sumSquares(signed, d) ELSE 0
      r == IF norm /\ ss # 0 THEN ss ELSE ByteMax * ByteMax
  IN [i \in 1..d |-> [n |-> signed[Min(i, hashLen)], r |-> r]]

\* values[i] = signedHash[i & 31] (i % hashLen), then values[i] /= norm with
\* norm = Math.sqrt(sumSquares) || 1 when normalize is set
encode(d, norm, text) ==
  LET signed == signedHash(sha256(text))
      hashLen == Len(signed)
      ss == IF norm THEN sumSquares(signed, d) ELSE 0
      r == IF norm /\ ss # 0 THEN ss ELSE ByteMax * ByteMax
  IN [i \in 1..d |-> [n |-> signed[((i - 1) % hashLen) + 1], r |-> r]]

\* ------------------------------------------------------------- rounding
\* The operators above keep every number exact.  The two revisions of encode
\* add the same squares in a different order, and a floating-point sum is
\* rounded after every operation; the operators below follow the additions
\* one by one in a binary floating-point format of MantissaBits significant
\* bits (round to nearest, ties to even) whose unit is 1 / 255^2, so that
\* every single square (at most 255^2 < 2^16) is held exactly.

RECURSIVE ulp(_, _)
\* the spacing of the format's numbers around x >= 0
ulp(x, u) == IF x < (2 ^ MantissaBits) * u THEN u ELSE ulp(x, 2 * u)

\* the result of one arithmetic operation whose exact value is x >= 0
roundToNearest(x) ==
  LET u == ulp(x, 1)
      q == x \div u
      rest == x % u
  IN IF 2 * rest > u \/ (2 * rest = u /\ q % 2 = 1) THEN (q + 1) * u ELSE q * u

RECURSIVE addSquares(_, _, _, _)
\* acc after `for (let i = lo; i <= hi; i++) { const v = signedHash[i % hashLen];
\* acc += v * v }`, i counted from 1: the additions are made one by one in
\* the loop's order (the range is only split in two to keep the evaluation
\* shallow, the second half starting from the value the first half ended with)
addSquares(signed, lo, hi, acc) ==
  IF lo > hi THEN acc
  ELSE IF lo = hi
       THEN LET v == signed[((lo - 1) % Len(signed)) + 1]
            IN roundToNearest(acc + v * v)
       ELSE LET mid == (lo + hi) \div 2
            IN CHOOSE sum \in { addSquares(signed, mid + 1, hi, half) :
                                  half \in { addSquares(signed, lo, mid, acc) } } : TRUE

\* the earlier revision: sumSquares += val * val for each of the D components
earlierSumSquares(signed, d) == addSquares(signed, 1, d, 0)

\* the optimised revision: hashSumSquares * fullCycles, then the first
\* (D mod hashLen) squares
roundedSumSquares(signed, d) ==
  LET hashLen == Len(signed)
      hashSumSquares == addSquares(signed, 1, hashLen, 0)
      fullCycles == d \div hashLen
      remainder == d % hashLen
  IN addSquares(signed, 1, remainder, roundToNearest(hashSumSquares * fullCycles))

\* the earlier revision of encode: values[i] = signedHash[i % hashLen]
earlierEncode(d, norm, text) ==
  LET signed == signedHash(sha256(text))
      hashLen == Len(signed)
      ss == IF norm THEN earlierSumSquares(signed, d) ELSE 0
      r == IF norm /\ ss # 0 THEN ss ELSE ByteMax * ByteMax
  IN [i \in 1..d |-> [n |-> signed[((i - 1) % hashLen) + 1], r |-> r]]

\* the optimised revision of encode with its sums rounded: values[i] =
\* signedHash[i & 31] when hashLen === 32, signedHash[i % hashLen] otherwise
roundedEncode(d, norm, text) ==
  LET signed == signedHash(sha256(text))
      hashLen == Len(signed)
      ss == IF norm THEN roundedSumSquares(signed, d) ELSE 0
      r == IF norm /\ ss # 0 THEN ss ELSE ByteMax * ByteMax
  IN [i \in 1..d |-> [n |-> signed[IF hashLen = HashLen
                                     THEN ((i - 1) % HashLen) + 1
                                     ELSE ((i - 1) % hashLen) + 1],
                      r |-> r]]

\* An entropy value [num, den, r] stands for num / (den * r).
EntZero == [num |-> 0, den |-> 1, r |-> 1]
EntOne == [num |-> 1, den |-> 1, r |-> 1]

\* x < y, for y a literal or a configured floor (y.r = 1): x.num * y.den <
\* y.num * x.den * x.r, computed by integer division to stay in range
EntLess(x, y) ==
  IF y.num <= 0 THEN x.num * y.den < y.num * x.den * x.r
  ELSE ((x.num * y.den) \div (y.num * x.den)) < x.r

\* The components of a tensor share their r (every tensor encode returns does);
\* mean = sumAbs / len and diff = |t[i]| - mean = (len * |t[i]| - sumAbs) / len,
\* so variance = sum (len * |n_i| - sumAbs)^2 / (len^3 * r)
estimateEntropy(entropyFloor, tensor) ==
  LET len == Len(tensor)
  IN IF len = 0 THEN EntZero
     ELSE LET abs == [i \in 1..len |-> Abs(tensor[i].n)]
              sumAbs == SumSeq(abs)
              sumSqDiff == SumSeq([i \in 1..len |->
                             (len * abs[i] - sumAbs) * (len * abs[i] - sumAbs)])
              variance == [num |-> sumSqDiff, den |-> len * len * len,
                           r |-> tensor[1].r]
              entropy == IF EntLess(variance, EntOne) THEN variance ELSE EntOne
          IN IF EntLess(entropy, entropyFloor) THEN entropyFloor ELSE entropy

\* the constructor: throws, or sets the three readonly fields
NovaNeoEncoder(cfg) ==
  IF cfg.dimensions <= 0
  THEN [threw |-> "Error", object |-> << >>]
  ELSE [threw |-> NoThrow,
        object |-> <<[dimensions |-> cfg.dimensions,
                      normalize |-> IF cfg.normalize = << >> THEN FALSE
                                    ELSE cfg.normalize[1],
                      entropyFloor |-> IF cfg.entropyFloor = << >> THEN EntZero
                                       ELSE cfg.entropyFloor[1]]>>]

\* the record handed to logger.debug; the 8-digit prefix of the tensor's hash
\* is kept as the hash itself
provenance(floor, text, values) ==
  [msg |-> "NOVA-NEO Encoding complete",
   inputLength |-> length(text),
   dimensions |-> Len(values),
   entropy |-> estimateEntropy(floor, values),
   tensorHash |-> <<values>>]

\* mutant: logger.debug({ ... }) called whatever the level
diagnostics_eager(debug, floor, text, values) == <<provenance(floor, text, values)>>

\* if (logger.isLevelEnabled('debug')) logger.debug({ ... }): the payloads built
diagnostics(debug, floor, text, values) ==
  IF debug THEN <<provenance(floor, text, values)>> ELSE << >>

\* ------------------------------------------------------------- port
\* two callers of recordTrace on one store, as threads of a multi-threaded port
Callers == {1, 2}

\* recordTrace is called by the one writer only
PortUnused ==
  /\ atomic = TRUE
  /\ mutex = 0
  /\ pc = [c \in Callers |-> "idle"]
  /\ local = [c \in Callers |-> << >>]

\* ------------------------------------------------------------- instances
\* two instances of each class, made by the one caller
Instances == {1, 2}

\* mutant: the list is a module-level singleton, shared by every instance
fieldOwner_singleton(self) == 1

\* `private traces: PheromoneTrace[] = []` and `private etches: EtchRecord[] = []`
\* are instance fields: this.traces is the list of the instance called
fieldOwner(self) == self

\* mutant: this.traces.reverse().slice(0, limit) reverses the stored list
storedAfterRecent_inPlace(arr, limit) == reverse(arr)

\* what slice(-limit).reverse() leaves in the stored list: slice copies and
\* reverse acts on the copy
storedAfterRecent(arr, limit) == arr

\* ------------------------------------------------------------- references
\* A JavaScript array or object is held by reference.  heap is the sequence of
\* the objects allocated so far and a reference is an index into it: an array
\* is [items |-> <<...>>], a metadata object [entries |-> ...], a trace object
\* is the record of its fields, those of array or object type being references.

\* no object is followed by reference
HeapUnused == heap = << >>

\* the reference passed for an omitted `metadata?`
Undefined == 0

\* what JSON.stringify reads through a metadata reference
metadataOf(h, ref) == IF ref = Undefined THEN NoMeta ELSE h[ref].entries

\* the trace objects this.traces refers to
residentObjects(h, ts) == [i \in 1..Len(ts) |-> h[ts[i]]]

\* mutant: context: [...context], the trace holds a copy of the caller's array
recordTrace_copiesContext(h, ts, id, clock, context, synthesisVector, metadata) ==
  LET computed == newTrace(residentObjects(h, ts), id, clock, h[context].items,
                           h[synthesisVector].items, metadataOf(h, metadata))
      trace == [computed EXCEPT !.context = Len(h) + 1,
                                !.synthesisVector = synthesisVector,
                                !.metadata = metadata]
  IN [computed |-> computed,
      heap |-> h \o <<[items |-> h[context].items], trace>>,
      trace |-> Len(h) + 2]

\* recordTrace up to the push: id, weight, hash and magnitude are computed from
\* what the arguments hold now; the new trace object holds the arguments
\* themselves (`context, synthesisVector, metadata` in the object literal)
recordTrace(h, ts, id, clock, context, synthesisVector, metadata) ==
  LET computed == newTrace(residentObjects(h, ts), id, clock, h[context].items,
                           h[synthesisVector].items, metadataOf(h, metadata))
      trace == [computed EXCEPT !.context = context,
                                !.synthesisVector = synthesisVector,
                                !.metadata = metadata]
  IN [computed |-> computed,
      heap |-> Append(h, trace),
      trace |-> Len(h) + 1]

\* only the single store and accumulator are in use
InstancesUnused ==
  /\ stores = [i \in Instances |-> << >>]
  /\ accumulators = [i \in Instances |-> << >>]

\* no encoder is in use
EncoderUnused ==
  /\ config = [dimensions |-> 8, normalize |-> <<TRUE>>,
               entropyFloor |-> <<[num |-> 1, den |-> 20, r |-> 1]>>]
  /\ encoder = << >>
  /\ debugEnabled = FALSE
  /\ log = << >>
  /\ encoded = << >>

\* ------------------------------------------------------------- inputs
Thresholds ==
  { [n |-> -1, r |-> 4],     \* -0.5
    [n |-> 1, r |-> 4],      \* 0.5, the default
    [n |-> 3, r |-> 16],     \* 0.75
    [n |-> 2, r |-> 1] }     \* 2

Caps == 1..MaxCap

TraceInputs ==
  { [context |-> <<1, 0>>,  synthesisVector |-> <<1, 0>>,  metadata |-> "bootstrap"],
    [context |-> <<2, 0>>,  synthesisVector |-> <<2, 0>>,  metadata |-> NoMeta],
    [context |-> <<1, 1>>,  synthesisVector |-> <<1, 0>>,  metadata |-> NoMeta],
    [context |-> <<0, -1>>, synthesisVector |-> <<0, 0>>,  metadata |-> NoMeta],
    [context |-> <<0, 0>>,  synthesisVector |-> <<0, 0>>,  metadata |-> NoMeta],
    [context |-> <<1, 0>>,  synthesisVector |-> <<1, 0>>,  metadata |-> Circular] }

Queries == { in.context : in \in TraceInputs }

\* explicit limits up to one past the largest capacity, and the default
Limits == (0..(MaxCap + 1)) \cup {DefaultLimit}

NoResult == [op |-> "new", arg |-> << >>, value |-> << >>, threw |-> NoThrow]

\* ------------------------------------------------------------- store actions
InitStore ==
  /\ resonanceThreshold \in Thresholds
  /\ maxTraces \in Caps
  /\ traces = << >>
  /\ returned = << >>

RecordTrace(context, synthesisVector, metadata) ==
  /\ Len(returned) < MaxRecorded
  /\ \E id \in randomUUID({ returned[k].id : k \in 1..Len(returned) }) :
       IF stringifyThrows([metadata |-> metadata])
       THEN \* merkleHash throws before the push: the store is as it was
            /\ UNCHANGED <<traces, returned>>
            /\ result' = [op |-> "recordTrace", arg |-> context, value |-> << >>,
                          threw |-> "TypeError"]
       ELSE LET trace == newTrace(traces, id, Len(returned), context,
                                  synthesisVector, metadata)
            IN /\ traces' = pushAndEvict(traces, trace, maxTraces)
               /\ returned' = Append(returned, trace)
               /\ result' = [op |-> "recordTrace", arg |-> context, value |-> trace,
                             threw |-> NoThrow]
  /\ UNCHANGED <<resonanceThreshold, maxTraces>>
  /\ UNCHANGED etchVars
  /\ UNCHANGED encVars
  /\ UNCHANGED instVars
  /\ UNCHANGED portVars
  /\ UNCHANGED heap

GetResonance(context) ==
  /\ result' = [op |-> "getResonance", arg |-> context,
                value |-> getResonance(traces, resonanceThreshold, context),
                threw |-> NoThrow]
  /\ UNCHANGED storeVars
  /\ UNCHANGED etchVars
  /\ UNCHANGED encVars
  /\ UNCHANGED instVars
  /\ UNCHANGED portVars
  /\ UNCHANGED heap

GetMerkleRoot ==
  /\ result' = [op |-> "getMerkleRoot", arg |-> << >>, value |-> getMerkleRoot(traces),
                threw |-> NoThrow]
  /\ UNCHANGED storeVars
  /\ UNCHANGED etchVars
  /\ UNCHANGED encVars
  /\ UNCHANGED instVars
  /\ UNCHANGED portVars
  /\ UNCHANGED heap

GetRecent(limit) ==
  /\ result' = [op |-> "getRecent", arg |-> limit, value |-> getRecent(traces, limit),
                threw |-> NoThrow]
  /\ UNCHANGED storeVars
  /\ UNCHANGED etchVars
  /\ UNCHANGED encVars
  /\ UNCHANGED instVars
  /\ UNCHANGED portVars
  /\ UNCHANGED heap

Init ==
  /\ InitStore
  /\ confidenceFloor = [num |-> 4, den |-> 5]
  /\ auditLog = TRUE
  /\ etches = << >>
  /\ etchCalls = 0
  /\ EncoderUnused
  /\ PortUnused
  /\ InstancesUnused
  /\ HeapUnused
  /\ result = NoResult

Next ==
  \/ \E in \in TraceInputs : RecordTrace(in.context, in.synthesisVector, in.metadata)
  \/ \E q \in Queries : GetResonance(q)
  \/ GetMerkleRoot
  \/ \E limit \in Limits : GetRecent(limit)

Spec == Init /\ [][Next]_vars

\* ------------------------------------------------------------- etch
\* hash: '' of the skipped record
EmptyHash == << >>
\* note?: undefined
NoNote == "undefined"
SkippedNote == "skipped-low-confidence"

\* x < y on fractions with positive denominators
RatLess(x, y) == x.num * y.den < y.num * x.den
\* x === y as numbers
RatSame(x, y) == x.num * y.den = y.num * x.den

\* mutant: the hash of the last record is hashed with the payload
etchHash_chained(payload) ==
  <<payload.context, payload.synthesisVector, payload.normalizedDelta, payload.note,
    IF Len(etches) = 0 THEN EmptyHash ELSE etches[Len(etches)].hash>>

\* sha256 of JSON.stringify({ context, synthesisVector, normalizedDelta, note })
etchHash(payload) ==
  <<payload.context, payload.synthesisVector, payload.normalizedDelta, payload.note>>

\* mutant: no skip branch
applyEtch_neverSkips(es, floor, audit, clock, context, synthesisVector, note) ==
  LET minLen == Min(Len(context), Len(synthesisVector))
      deltaWeight == Dot(context, synthesisVector, minLen)
      normalizedDelta == [num |-> deltaWeight,
                          den |-> Scale * Scale * (IF minLen = 0 THEN 1 ELSE minLen)]
      payload == [context |-> context, synthesisVector |-> synthesisVector,
                  normalizedDelta |-> normalizedDelta, note |-> note]
      record == [hash |-> etchHash(payload),
                 deltaWeight |-> normalizedDelta,
                 note |-> note,
                 timestamp |-> clock]
  IN [record |-> record, etches |-> Append(es, record)]

\* mutant: skips below the floor whatever auditLog is
applyEtch_ignoresAudit(es, floor, audit, clock, context, synthesisVector, note) ==
  LET minLen == Min(Len(context), Len(synthesisVector))
      deltaWeight == Dot(context, synthesisVector, minLen)
      normalizedDelta == [num |-> deltaWeight,
                          den |-> Scale * Scale * (IF minLen = 0 THEN 1 ELSE minLen)]
  IN IF RatLess(normalizedDelta, floor)
     THEN [record |-> [hash |-> EmptyHash,
                       deltaWeight |-> [num |-> 0, den |-> 1],
                       note |-> SkippedNote,
                       timestamp |-> clock],
           etches |-> es]
     ELSE LET payload == [context |-> context, synthesisVector |-> synthesisVector,
                          normalizedDelta |-> normalizedDelta, note |-> note]
              record == [hash |-> etchHash(payload),
                         deltaWeight |-> normalizedDelta,
                         note |-> note,
                         timestamp |-> clock]
          IN [record |-> record, etches |-> Append(es, record)]

\* mutant: divides by context.length || 1
applyEtch_contextLen(es, floor, audit, clock, context, synthesisVector, note) ==
  LET minLen == Min(Len(context), Len(synthesisVector))
      deltaWeight == Dot(context, synthesisVector, minLen)
      normalizedDelta == [num |-> deltaWeight,
                          den |-> Scale * Scale * (IF Len(context) = 0 THEN 1 ELSE Len(context))]
  IN IF RatLess(normalizedDelta, floor) /\ ~audit
     THEN [record |-> [hash |-> EmptyHash,
                       deltaWeight |-> [num |-> 0, den |-> 1],
                       note |-> SkippedNote,
                       timestamp |-> clock],
           etches |-> es]
     ELSE LET payload == [context |-> context, synthesisVector |-> synthesisVector,
                          normalizedDelta |-> normalizedDelta, note |-> note]
              record == [hash |-> etchHash(payload),
                         deltaWeight |-> normalizedDelta,
                         note |-> note,
                         timestamp |-> clock]
          IN [record |-> record, etches |-> Append(es, record)]

\* mutant: keeps the etch list bounded, shifting the oldest record out
applyEtch_bounded(es, floor, audit, clock, context, synthesisVector, note) ==
  LET minLen == Min(Len(context), Len(synthesisVector))
      deltaWeight == Dot(context, synthesisVector, minLen)
      normalizedDelta == [num |-> deltaWeight,
                          den |-> Scale * Scale * (IF minLen = 0 THEN 1 ELSE minLen)]
  IN IF RatLess(normalizedDelta, floor) /\ ~audit
     THEN [record |-> [hash |-> EmptyHash,
                       deltaWeight |-> [num |-> 0, den |-> 1],
                       note |-> SkippedNote,
                       timestamp |-> clock],
           etches |-> es]
     ELSE LET payload == [context |-> context, synthesisVector |-> synthesisVector,
                          normalizedDelta |-> normalizedDelta, note |-> note]
              record == [hash |-> etchHash(payload),
                         deltaWeight |-> normalizedDelta,
                         note |-> note,
                         timestamp |-> clock]
              pushed == Append(es, record)
          IN [record |-> record,
              etches |-> IF Len(pushed) > 2 THEN Tail(pushed) ELSE pushed]

\* applyEtch: the record it returns and the etch list it leaves
applyEtch(es, floor, audit, clock, context, synthesisVector, note) ==
  LET minLen == Min(Len(context), Len(synthesisVector))
      deltaWeight == Dot(context, synthesisVector, minLen)
      normalizedDelta == [num |-> deltaWeight,
                          den |-> Scale * Scale * (IF minLen = 0 THEN 1 ELSE minLen)]
  IN IF RatLess(normalizedDelta, floor) /\ ~audit
     THEN [record |-> [hash |-> EmptyHash,
                       deltaWeight |-> [num |-> 0, den |-> 1],
                       note |-> SkippedNote,
                       timestamp |-> clock],
           etches |-> es]
     ELSE LET payload == [context |-> context, synthesisVector |-> synthesisVector,
                          normalizedDelta |-> normalizedDelta, note |-> note]
              record == [hash |-> etchHash(payload),
                         deltaWeight |-> normalizedDelta,
                         note |-> note,
                         timestamp |-> clock]
          IN [record |-> record, etches |-> Append(es, record)]

\* this.etches.slice(-limit).reverse()
recent(es, limit) == reverse(slice(es, 0 - limit))

Floors ==
  { [num |-> 4, den |-> 5],     \* 0.8, the default
    [num |-> 3, den |-> 20],    \* 0.15
    [num |-> 0, den |-> 1] }    \* 0

\* vectors in tenths
EtchInputs ==
  { [context |-> <<10, 5, -5, 2>>, synthesisVector |-> <<5, 5, 5, 5>>, note |-> "unit-test"],
    [context |-> <<10, 10>>,       synthesisVector |-> <<10, 10>>,     note |-> NoNote],
    [context |-> <<10, 10>>,       synthesisVector |-> <<10>>,         note |-> NoNote],
    [context |-> <<8>>,            synthesisVector |-> <<10>>,         note |-> NoNote],
    [context |-> <<-10, 0>>,       synthesisVector |-> <<5, 10>>,      note |-> NoNote],
    [context |-> << >>,            synthesisVector |-> <<5>>,          note |-> NoNote] }

\* ------------------------------------------------------------- etch actions
ApplyEtch(context, synthesisVector, note) ==
  /\ etchCalls < MaxEtchCalls
  /\ LET out == applyEtch(etches, confidenceFloor, auditLog, etchCalls,
                          context, synthesisVector, note)
     IN /\ etches' = out.etches
        /\ result' = [op |-> "applyEtch",
                      arg |-> [context |-> context, synthesisVector |-> synthesisVector,
                               note |-> note],
                      value |-> out.record,
                      threw |-> NoThrow]
  /\ etchCalls' = etchCalls + 1
  /\ UNCHANGED <<confidenceFloor, auditLog>>
  /\ UNCHANGED storeVars
  /\ UNCHANGED encVars
  /\ UNCHANGED instVars
  /\ UNCHANGED portVars
  /\ UNCHANGED heap

Recent(limit) ==
  /\ result' = [op |-> "recent", arg |-> limit, value |-> recent(etches, limit),
                threw |-> NoThrow]
  /\ UNCHANGED etchVars
  /\ UNCHANGED encVars
  /\ UNCHANGED instVars
  /\ UNCHANGED portVars
  /\ UNCHANGED storeVars
  /\ UNCHANGED heap

InitEtch ==
  /\ confidenceFloor \in Floors
  /\ auditLog \in BOOLEAN
  /\ etches = << >>
  /\ etchCalls = 0
  /\ resonanceThreshold = [n |-> 1, r |-> 4]
  /\ maxTraces = MaxCap
  /\ traces = << >>
  /\ returned = << >>
  /\ EncoderUnused
  /\ PortUnused
  /\ InstancesUnused
  /\ HeapUnused
  /\ result = NoResult

NextEtch ==
  \/ \E in \in EtchInputs : ApplyEtch(in.context, in.synthesisVector, in.note)
  \/ \E limit \in Limits : Recent(limit)

SpecEtch == InitEtch /\ [][NextEtch]_vars

\* ------------------------------------------------------------- encoder actions
Dimensions == {-1, 0, 1, 8, 34, 65}

EncoderFloors ==
  { << >>,                                  \* entropyFloor omitted: 0.0
    <<[num |-> 1, den |-> 20, r |-> 1]>>,   \* 0.05
    <<[num |-> 2, den |-> 1, r |-> 1]>> }   \* 2

Configs ==
  [dimensions : Dimensions, normalize : {<< >>, <<TRUE>>}, entropyFloor : EncoderFloors]

\* new NovaNeoEncoder(config)
Construct ==
  /\ result = NoResult
  /\ LET made == NovaNeoEncoder(config)
     IN /\ encoder' = made.object
        /\ result' = [op |-> "new NovaNeoEncoder", arg |-> config,
                      value |-> made.object, threw |-> made.threw]
  /\ UNCHANGED <<config, debugEnabled, log, encoded>>
  /\ UNCHANGED storeVars
  /\ UNCHANGED etchVars
  /\ UNCHANGED portVars
  /\ UNCHANGED instVars
  /\ UNCHANGED heap

\* encoder.encode(text)
Encode(text) ==
  /\ encoder # << >>
  /\ Len(encoded) < MaxEncodeCalls
  /\ LET this == encoder[1]
         values == encode(this.dimensions, this.normalize, text)
     IN /\ log' = log \o diagnostics(debugEnabled, this.entropyFloor, text, values)
        /\ encoded' = Append(encoded, [text |-> text, tensor |-> values])
        /\ result' = [op |-> "encode", arg |-> text, value |-> values,
                      threw |-> NoThrow,
                      rounded |-> roundedEncode(this.dimensions, this.normalize, text)]
  /\ UNCHANGED <<config, encoder, debugEnabled>>
  /\ UNCHANGED storeVars
  /\ UNCHANGED etchVars
  /\ UNCHANGED portVars
  /\ UNCHANGED instVars
  /\ UNCHANGED heap

\* the tensors a caller passes: the empty tensor, the tensor [0, 3] and those
\* encode returned
Tensors ==
  {<< >>, <<[n |-> 0, r |-> 1], [n |-> 3, r |-> 1]>>}
    \cup { encoded[k].tensor : k \in 1..Len(encoded) }

\* encoder.estimateEntropy(tensor)
EstimateEntropy(tensor) ==
  /\ encoder # << >>
  /\ result' = [op |-> "estimateEntropy", arg |-> tensor,
                value |-> estimateEntropy(encoder[1].entropyFloor, tensor),
                threw |-> NoThrow]
  /\ UNCHANGED encVars
  /\ UNCHANGED instVars
  /\ UNCHANGED portVars
  /\ UNCHANGED storeVars
  /\ UNCHANGED etchVars
  /\ UNCHANGED portVars
  /\ UNCHANGED instVars
  /\ UNCHANGED heap

InitEncoder ==
  /\ config \in Configs
  /\ encoder = << >>
  /\ debugEnabled \in BOOLEAN
  /\ log = << >>
  /\ encoded = << >>
  /\ resonanceThreshold = [n |-> 1, r |-> 4]
  /\ maxTraces = MaxCap
  /\ traces = << >>
  /\ returned = << >>
  /\ confidenceFloor = [num |-> 4, den |-> 5]
  /\ auditLog = TRUE
  /\ etches = << >>
  /\ etchCalls = 0
  /\ PortUnused
  /\ InstancesUnused
  /\ HeapUnused
  /\ result = NoResult

NextEncoder ==
  \/ Construct
  \/ \E text \in Texts : Encode(text)
  \/ \E tensor \in Tensors : EstimateEntropy(tensor)

SpecEncoder == InitEncoder /\ [][NextEncoder]_vars

\* ------------------------------------------------------------- port actions
\* The statements of recordTrace, taken one step at a time by each caller.
PortInputs ==
  { in \in TraceInputs : in.metadata = "bootstrap" \/ getMagnitude(in.context) = 0 }

\* recordTrace calls begun so far
Begun == Len(returned) + Cardinality({ c \in Callers : pc[c] # "idle" })

\* ids generated so far: those of returned traces and of traces in flight
UsedIds ==
  { returned[k].id : k \in 1..Len(returned) }
    \cup { local[c][1].trace[1].id :
             c \in { d \in Callers : pc[d] \in {"hashed", "pushed"} } }

\* a caller enters recordTrace; under a mutex it waits for the critical section
Enter(c, context, synthesisVector, metadata) ==
  /\ pc[c] = "idle"
  /\ Begun < MaxRecorded
  /\ atomic => mutex = 0
  /\ mutex' = IF atomic THEN c ELSE mutex
  /\ local' = [local EXCEPT ![c] =
                 <<[context |-> context, synthesisVector |-> synthesisVector,
                    metadata |-> metadata, parentHash |-> NoHash, trace |-> << >>]>>]
  /\ pc' = [pc EXCEPT ![c] = "entered"]
  /\ UNCHANGED <<atomic, result>>
  /\ UNCHANGED storeVars
  /\ UNCHANGED etchVars
  /\ UNCHANGED encVars
  /\ UNCHANGED instVars
  /\ UNCHANGED heap

\* const parentHash = this.traces.at(-1)?.hash
ReadLastHash(c) ==
  /\ pc[c] = "entered"
  /\ local' = [local EXCEPT ![c][1].parentHash = parentHashOf(traces)]
  /\ pc' = [pc EXCEPT ![c] = "read"]
  /\ UNCHANGED <<atomic, mutex, result>>
  /\ UNCHANGED storeVars
  /\ UNCHANGED etchVars
  /\ UNCHANGED encVars
  /\ UNCHANGED instVars
  /\ UNCHANGED heap

\* the id, the weight, the hash and the trace object
ComputeHash(c) ==
  /\ pc[c] = "read"
  /\ \E id \in randomUUID(UsedIds) :
       LET my == local[c][1]
           trace == traceObject(my.parentHash, id, Cardinality(UsedIds), my.context,
                                my.synthesisVector, my.metadata)
       IN local' = [local EXCEPT ![c][1].trace = <<trace>>]
  /\ pc' = [pc EXCEPT ![c] = "hashed"]
  /\ UNCHANGED <<atomic, mutex, result>>
  /\ UNCHANGED storeVars
  /\ UNCHANGED etchVars
  /\ UNCHANGED encVars
  /\ UNCHANGED instVars
  /\ UNCHANGED heap

\* this.traces.push(trace)
Push(c) ==
  /\ pc[c] = "hashed"
  /\ traces' = push(traces, local[c][1].trace[1])
  /\ pc' = [pc EXCEPT ![c] = "pushed"]
  /\ UNCHANGED <<resonanceThreshold, maxTraces, returned>>
  /\ UNCHANGED <<atomic, mutex, local, result>>
  /\ UNCHANGED etchVars
  /\ UNCHANGED encVars
  /\ UNCHANGED instVars
  /\ UNCHANGED heap

\* the eviction and the return; the critical section ends
EvictAndReturn(c) ==
  /\ pc[c] = "pushed"
  /\ traces' = shiftIfOver(traces, maxTraces)
  /\ returned' = Append(returned, local[c][1].trace[1])
  /\ result' = [op |-> "recordTrace", arg |-> local[c][1].context,
                value |-> local[c][1].trace[1], threw |-> NoThrow]
  /\ mutex' = IF mutex = c THEN 0 ELSE mutex
  /\ local' = [local EXCEPT ![c] = << >>]
  /\ pc' = [pc EXCEPT ![c] = "idle"]
  /\ UNCHANGED <<resonanceThreshold, maxTraces, atomic>>
  /\ UNCHANGED etchVars
  /\ UNCHANGED encVars
  /\ UNCHANGED instVars
  /\ UNCHANGED heap

InitPort ==
  /\ atomic \in BOOLEAN
  /\ mutex = 0
  /\ pc = [c \in Callers |-> "idle"]
  /\ local = [c \in Callers |-> << >>]
  /\ resonanceThreshold = [n |-> 1, r |-> 4]
  /\ maxTraces \in Caps
  /\ traces = << >>
  /\ returned = << >>
  /\ confidenceFloor = [num |-> 4, den |-> 5]
  /\ auditLog = TRUE
  /\ etches = << >>
  /\ etchCalls = 0
  /\ EncoderUnused
  /\ InstancesUnused
  /\ HeapUnused
  /\ result = NoResult

NextPort ==
  \/ \E c \in Callers : \E in \in PortInputs :
       Enter(c, in.context, in.synthesisVector, in.metadata)
  \/ \E c \in Callers : ReadLastHash(c)
  \/ \E c \in Callers : ComputeHash(c)
  \/ \E c \in Callers : Push(c)
  \/ \E c \in Callers : EvictAndReturn(c)

SpecPort == InitPort /\ [][NextPort]_vars

\* ------------------------------------------------------------- instance actions
\* The operations of the two classes, called on either of two instances.
InstanceTraceInputs == { in \in TraceInputs : in.metadata = "bootstrap" }

InstanceEtchInputs == { in \in EtchInputs : in.note # NoNote }

\* recordTrace and applyEtch calls made so far, on any instance
Mutations == Len(returned) + etchCalls

InstanceLimits == {0, 1, DefaultLimit}

\* stores[self].recordTrace(context, synthesisVector, metadata)
StoreRecordTrace(self, context, synthesisVector, metadata) ==
  /\ Mutations < MaxRecorded
  /\ \E id \in randomUUID({ returned[k].id : k \in 1..Len(returned) }) :
       LET ts == stores[fieldOwner(self)]
           trace == newTrace(ts, id, Len(returned), context, synthesisVector, metadata)
       IN /\ stores' = [stores EXCEPT ![fieldOwner(self)] =
                          pushAndEvict(ts, trace, maxTraces)]
          /\ returned' = Append(returned, trace)
          /\ result' = [op |-> "recordTrace", self |-> self, arg |-> context,
                        value |-> trace, threw |-> NoThrow]
  /\ UNCHANGED <<resonanceThreshold, maxTraces, traces, accumulators>>
  /\ UNCHANGED etchVars
  /\ UNCHANGED encVars
  /\ UNCHANGED portVars
  /\ UNCHANGED heap

\* stores[self].getResonance(context)
StoreGetResonance(self, context) ==
  /\ result' = [op |-> "getResonance", self |-> self, arg |-> context,
                value |-> getResonance(stores[fieldOwner(self)], resonanceThreshold,
                                       context),
                threw |-> NoThrow]
  /\ UNCHANGED instVars
  /\ UNCHANGED storeVars
  /\ UNCHANGED etchVars
  /\ UNCHANGED encVars
  /\ UNCHANGED portVars
  /\ UNCHANGED heap

\* stores[self].getMerkleRoot()
StoreGetMerkleRoot(self) ==
  /\ result' = [op |-> "getMerkleRoot", self |-> self, arg |-> << >>,
                value |-> getMerkleRoot(stores[fieldOwner(self)]), threw |-> NoThrow]
  /\ UNCHANGED instVars
  /\ UNCHANGED storeVars
  /\ UNCHANGED etchVars
  /\ UNCHANGED encVars
  /\ UNCHANGED portVars
  /\ UNCHANGED heap

\* stores[self].getRecent(limit)
StoreGetRecent(self, limit) ==
  /\ result' = [op |-> "getRecent", self |-> self, arg |-> limit,
                value |-> getRecent(stores[fieldOwner(self)], limit),
                threw |-> NoThrow]
  /\ stores' = [stores EXCEPT ![fieldOwner(self)] =
                  storedAfterRecent(stores[fieldOwner(self)], limit)]
  /\ UNCHANGED accumulators
  /\ UNCHANGED storeVars
  /\ UNCHANGED etchVars
  /\ UNCHANGED encVars
  /\ UNCHANGED portVars
  /\ UNCHANGED heap

\* accumulators[self].applyEtch(context, synthesisVector, note)
EtchApplyEtch(self, context, synthesisVector, note) ==
  /\ Mutations < MaxRecorded
  /\ LET out == applyEtch(accumulators[fieldOwner(self)], confidenceFloor, auditLog,
                          etchCalls, context, synthesisVector, note)
     IN /\ accumulators' = [accumulators EXCEPT ![fieldOwner(self)] = out.etches]
        /\ result' = [op |-> "applyEtch", self |-> self,
                      arg |-> [context |-> context, synthesisVector |-> synthesisVector,
                               note |-> note],
                      value |-> out.record, threw |-> NoThrow]
  /\ etchCalls' = etchCalls + 1
  /\ UNCHANGED <<confidenceFloor, auditLog, etches, stores>>
  /\ UNCHANGED storeVars
  /\ UNCHANGED encVars
  /\ UNCHANGED portVars
  /\ UNCHANGED heap

\* accumulators[self].recent(limit)
EtchRecent(self, limit) ==
  /\ result' = [op |-> "recent", self |-> self, arg |-> limit,
                value |-> recent(accumulators[fieldOwner(self)], limit),
                threw |-> NoThrow]
  /\ accumulators' = [accumulators EXCEPT ![fieldOwner(self)] =
                        storedAfterRecent(accumulators[fieldOwner(self)], limit)]
  /\ UNCHANGED stores
  /\ UNCHANGED storeVars
  /\ UNCHANGED etchVars
  /\ UNCHANGED encVars
  /\ UNCHANGED portVars
  /\ UNCHANGED heap

InitInstances ==
  /\ stores = [i \in Instances |-> << >>]
  /\ accumulators = [i \in Instances |-> << >>]
  /\ resonanceThreshold = [n |-> 1, r |-> 4]
  /\ maxTraces \in Caps
  /\ traces = << >>
  /\ returned = << >>
  /\ confidenceFloor = [num |-> 4, den |-> 5]
  /\ auditLog = TRUE
  /\ etches = << >>
  /\ etchCalls = 0
  /\ EncoderUnused
  /\ PortUnused
  /\ HeapUnused
  /\ result = NoResult

NextInstances ==
  \/ \E self \in Instances : \E in \in InstanceTraceInputs :
       StoreRecordTrace(self, in.context, in.synthesisVector, in.metadata)
  \/ \E self \in Instances : \E in \in InstanceTraceInputs :
       StoreGetResonance(self, in.context)
  \/ \E self \in Instances : StoreGetMerkleRoot(self)
  \/ \E self \in Instances : \E limit \in InstanceLimits : StoreGetRecent(self, limit)
  \/ \E self \in Instances : \E in \in InstanceEtchInputs :
       EtchApplyEtch(self, in.context, in.synthesisVector, in.note)
  \/ \E self \in Instances : \E limit \in InstanceLimits : EtchRecent(self, limit)

SpecInstances == InitInstances /\ [][NextInstances]_vars

\* ------------------------------------------------------------- reference actions
\* In SpecAlias traces holds references to trace objects, result.value of
\* recordTrace is the reference returned, and returned keeps each trace as
\* it was computed, by value.

\* the caller's objects: const context = [1, 0], const synthesis = [1, 1] and
\* { note: 'bootstrap' }
CallerHeap == <<[items |-> <<1, 0>>], [items |-> <<1, 1>>], [entries |-> "bootstrap"]>>

\* the references to the caller's arrays
CallerArrays == { ref \in 1..Len(CallerHeap) : "items" \in DOMAIN CallerHeap[ref] }

\* the references to the caller's metadata objects
CallerObjects == { ref \in 1..Len(CallerHeap) : "entries" \in DOMAIN CallerHeap[ref] }

\* recordTrace(context, context, { note }) and recordTrace(context, synthesis)
AliasInputs ==
  { [context |-> 1, synthesisVector |-> 1, metadata |-> 3],
    [context |-> 1, synthesisVector |-> 2, metadata |-> Undefined] }

\* the positions and the numbers a caller writes into an array it holds
WrittenIndexes == {1}
WrittenValues == {3}

\* the values a caller gives its metadata object
MetadataEdits == {"edited"}

\* store.recordTrace(context, synthesisVector, metadata), the arguments being references
RecordByReference(context, synthesisVector, metadata) ==
  /\ Len(returned) < MaxByReference
  /\ \E id \in randomUUID({ returned[k].id : k \in 1..Len(returned) }) :
       IF stringifyThrows([metadata |-> metadataOf(heap, metadata)])
       THEN /\ UNCHANGED <<traces, returned, heap>>
            /\ result' = [op |-> "recordTrace",
                          arg |-> [context |-> context,
                                   synthesisVector |-> synthesisVector,
                                   metadata |-> metadata],
                          value |-> << >>, threw |-> "TypeError"]
       ELSE LET made == recordTrace(heap, traces, id, Len(returned), context,
                                    synthesisVector, metadata)
            IN /\ heap' = made.heap
               /\ traces' = pushAndEvict(traces, made.trace, maxTraces)
               /\ returned' = Append(returned, made.computed)
               /\ result' = [op |-> "recordTrace",
                             arg |-> [context |-> context,
                                      synthesisVector |-> synthesisVector,
                                      metadata |-> metadata],
                             value |-> made.trace, threw |-> NoThrow]
  /\ UNCHANGED <<resonanceThreshold, maxTraces>>
  /\ UNCHANGED etchVars
  /\ UNCHANGED encVars
  /\ UNCHANGED instVars
  /\ UNCHANGED portVars

\* store.getRecent(limit): a new array of the references this.traces holds
RecentByReference(limit) ==
  /\ result' = [op |-> "getRecent", arg |-> limit, value |-> getRecent(traces, limit),
                threw |-> NoThrow]
  /\ UNCHANGED heap
  /\ UNCHANGED storeVars
  /\ UNCHANGED etchVars
  /\ UNCHANGED encVars
  /\ UNCHANGED instVars
  /\ UNCHANGED portVars

\* the caller's `array[i] = x` on an array it passed to recordTrace (the same
\* array as trace.context or trace.synthesisVector of a trace handed back)
CallerWrites(ref, i, x) ==
  /\ heap[ref].items[i] # x
  /\ heap' = [heap EXCEPT ![ref].items[i] = x]
  /\ result' = [op |-> "write", arg |-> [ref |-> ref, index |-> i], value |-> x,
                threw |-> NoThrow]
  /\ UNCHANGED storeVars
  /\ UNCHANGED etchVars
  /\ UNCHANGED encVars
  /\ UNCHANGED instVars
  /\ UNCHANGED portVars

\* the caller's change of a metadata object it passed to recordTrace
CallerEdits(ref, entries) ==
  /\ heap[ref].entries # entries
  /\ heap' = [heap EXCEPT ![ref].entries = entries]
  /\ result' = [op |-> "edit", arg |-> ref, value |-> entries, threw |-> NoThrow]
  /\ UNCHANGED storeVars
  /\ UNCHANGED etchVars
  /\ UNCHANGED encVars
  /\ UNCHANGED instVars
  /\ UNCHANGED portVars

InitAlias ==
  /\ heap = CallerHeap
  /\ resonanceThreshold = [n |-> 1, r |-> 4]
  /\ maxTraces \in Caps
  /\ traces = << >>
  /\ returned = << >>
  /\ confidenceFloor = [num |-> 4, den |-> 5]
  /\ auditLog = TRUE
  /\ etches = << >>
  /\ etchCalls = 0
  /\ EncoderUnused
  /\ PortUnused
  /\ InstancesUnused
  /\ result = NoResult

NextAlias ==
  \/ \E in \in AliasInputs :
       RecordByReference(in.context, in.synthesisVector, in.metadata)
  \/ \E limit \in InstanceLimits : RecentByReference(limit)
  \/ \E ref \in CallerArrays : \E i \in WrittenIndexes : \E x \in WrittenValues :
       CallerWrites(ref, i, x)
  \/ \E ref \in CallerObjects : \E entries \in MetadataEdits : CallerEdits(ref, entries)

SpecAlias == InitAlias /\ [][NextAlias]_vars

\* ------------------------------------------------------------- store claims
\* the trace returned by the most recent recordTrace call
LastReturned == returned[Len(returned)]

\* the most recent recordTrace call was recordTrace(v, v, meta) with v nonzero
SelfRecorded ==
  /\ returned # << >>
  /\ LastReturned.context = LastReturned.synthesisVector
  /\ getMagnitude(LastReturned.context) # 0

\* the indices of the resident traces whose cosine with q is the highest
TopTraces(q) ==
  { k \in 1..Len(traces) :
      \A j \in 1..Len(traces) :
        GEq(cosine(q, traces[k].context), cosine(q, traces[j].context)) }

\* the highest cosine between q and a resident trace (store not empty)
TopScore(q) == cosine(q, traces[CHOOSE k \in TopTraces(q) : TRUE].context)

\* C1: chain integrity. While no more than maxTraces traces have been
\* recorded on a fresh store, the first returned trace has no parentHash,
\* every later one has the hash of the one returned before it as its
\* parentHash, and getMerkleRoot() is the hash of the last returned trace.
ChainIntegrity ==
  Len(returned) <= maxTraces =>
    /\ \A k \in 1..Len(returned) :
         /\ returned[k].hash # NoHash
         /\ returned[k].parentHash = (IF k = 1 THEN NoHash ELSE returned[k - 1].hash)
    /\ (result.op = "getMerkleRoot" /\ returned # << >>) => result.value = LastReturned.hash

ChainIntegrityWitness ==
  /\ Len(returned) = 2
  /\ maxTraces = 2
  /\ result.op = "getMerkleRoot"
  /\ result.value = returned[2].hash
  /\ returned[2].parentHash = returned[1].hash

\* C2: bounded FIFO. After n recordTrace calls the store holds exactly the
\* min(n, maxTraces) most recently recorded traces in insertion order, never
\* more than maxTraces, and after maxTraces + 1 insertions
\* getRecent(maxTraces + 1) is the other maxTraces traces, without the first one.
BoundedFifo ==
  LET n == Len(returned)
      m == Min(n, maxTraces)
  IN /\ Len(traces) = m
     /\ Len(traces) <= maxTraces
     /\ traces = SubSeq(returned, n - m + 1, n)
     /\ (n = maxTraces + 1 /\ result.op = "getRecent" /\ result.arg = maxTraces + 1) =>
          /\ Len(result.value) = maxTraces
          /\ \A i \in 1..Len(result.value) :
               /\ result.value[i] # returned[1]
               /\ result.value[i] = returned[n + 1 - i]

BoundedFifoWitness ==
  /\ Len(returned) = maxTraces + 1
  /\ result.op = "getRecent"
  /\ result.arg = maxTraces + 1
  /\ Len(result.value) = maxTraces

\* C3 as stated: after recordTrace(v, v, meta) with v nonzero, whatever the
\* store holds, getResonance(v) has a score >= resonanceThreshold and returns
\* the trace just recorded.
SelfResonanceAsStated ==
  (result.op = "getResonance" /\ SelfRecorded /\ result.arg = LastReturned.context) =>
    /\ GEq(result.value.score, resonanceThreshold)
    /\ result.value.trace # << >>
    /\ result.value.trace[1].id = LastReturned.id

\* C3 amended: when resonanceThreshold is not above the self-cosine 1,
\* getResonance(v) after recordTrace(v, v, meta) with v nonzero has score 1
\* (>= resonanceThreshold) and returns the earliest resident trace whose
\* cosine with v is 1; that is the trace just recorded whenever no earlier
\* resident trace has cosine 1 with v.
SelfResonance ==
  (/\ result.op = "getResonance"
   /\ SelfRecorded
   /\ result.arg = LastReturned.context
   /\ GEq(One, resonanceThreshold)) =>
    LET v == result.arg
        tied == { k \in 1..Len(traces) : Same(cosine(v, traces[k].context), One) }
        first == CHOOSE k \in tied : \A j \in tied : k <= j
    IN /\ Same(result.value.score, One)
       /\ GEq(result.value.score, resonanceThreshold)
       /\ result.value.trace = <<traces[first]>>
       /\ (tied = {Len(traces)}) => result.value.trace[1].id = LastReturned.id

SelfResonanceWitness ==
  /\ result.op = "getResonance"
  /\ SelfRecorded
  /\ result.arg = LastReturned.context
  /\ GEq(One, resonanceThreshold)
  /\ Len(traces) = 2
  /\ result.value.trace = <<LastReturned>>

\* C4 as stated: if the highest cosine between the query and a resident
\* trace is >= resonanceThreshold, getResonance returns that score and a
\* resident trace attaining it; otherwise {score: 0} and no trace.
HitRuleAsStated ==
  result.op = "getResonance" =>
    LET q == result.arg
    IN IF traces # << >> /\ GEq(TopScore(q), resonanceThreshold)
       THEN /\ result.value.trace # << >>
            /\ \E k \in TopTraces(q) : result.value.trace[1] = traces[k]
            /\ Same(result.value.score, TopScore(q))
       ELSE result.value = Miss

\* C4 amended: if the highest cosine between the query and a resident trace
\* is > 0 and >= resonanceThreshold, getResonance returns that score and a
\* resident trace attaining it; otherwise {score: 0} and no trace.
HitRule ==
  result.op = "getResonance" =>
    LET q == result.arg
    IN IF /\ traces # << >>
          /\ Less(Zero, TopScore(q))
          /\ GEq(TopScore(q), resonanceThreshold)
       THEN /\ result.value.trace # << >>
            /\ \E k \in TopTraces(q) : result.value.trace[1] = traces[k]
            /\ Same(result.value.score, TopScore(q))
       ELSE result.value = Miss

HitRuleWitness ==
  /\ result.op = "getResonance"
  /\ Len(traces) = 2
  /\ result.value.trace = <<traces[2]>>
  /\ Less(cosine(result.arg, traces[1].context), result.value.score)
  /\ Less(Zero, cosine(result.arg, traces[1].context))

\* C5: miss case. When every resident trace has a cosine with the query
\* strictly below resonanceThreshold, getResonance returns {score: 0} and no
\* trace; a result carries a trace only when its score is >= resonanceThreshold.
MissCase ==
  result.op = "getResonance" =>
    /\ (\A k \in 1..Len(traces) :
          Less(cosine(result.arg, traces[k].context), resonanceThreshold))
         => result.value = Miss
    /\ result.value.trace # << >> => GEq(result.value.score, resonanceThreshold)

MissCaseWitness ==
  /\ result.op = "getResonance"
  /\ traces # << >>
  /\ \A k \in 1..Len(traces) :
       Less(cosine(result.arg, traces[k].context), resonanceThreshold)
  /\ \E k \in 1..Len(traces) : Less(Zero, cosine(result.arg, traces[k].context))
  /\ result.value = Miss

\* C6: getMerkleRoot() is the hash of the trace the most recent recordTrace
\* call returned, also after evictions, and is absent exactly when no trace
\* has ever been recorded.
MerkleRootIsLast ==
  result.op = "getMerkleRoot" =>
    /\ (result.value = NoHash) <=> (returned = << >>)
    /\ returned # << >> => result.value = LastReturned.hash

MerkleRootIsLastWitness ==
  /\ result.op = "getMerkleRoot"
  /\ Len(returned) > maxTraces
  /\ result.value = LastReturned.hash

\* C7: getRecent(limit), limit >= 0, returns exactly the min(limit, size)
\* most recently appended resident traces, newest first.
GetRecentNewestFirst ==
  (result.op = "getRecent" /\ result.arg >= 0) =>
    LET m == Min(result.arg, Len(traces))
    IN /\ Len(result.value) = m
       /\ \A i \in 1..m : result.value[i] = traces[Len(traces) + 1 - i]

\* ------------------------------------------------------------- etch claims
\* the overlap of the two vectors of an applyEtch call
Overlap(a) == Min(Len(a.context), Len(a.synthesisVector))

RECURSIVE SumProducts(_, _)
\* the sum of context[i] * synthesisVector[i] over a set of indices
SumProducts(a, idx) ==
  IF idx = {} THEN 0
  ELSE LET i == CHOOSE j \in idx : TRUE
       IN a.context[i] * a.synthesisVector[i] + SumProducts(a, idx \ {i})

\* dot product over the overlapping prefix divided by the overlap length,
\* by 1 when the overlap is empty
NormalizedDelta(a) ==
  [num |-> SumProducts(a, 1..Overlap(a)),
   den |-> Scale * Scale * (IF Overlap(a) = 0 THEN 1 ELSE Overlap(a))]

\* C8: etch skip case. An applyEtch call whose normalized delta is strictly
\* below confidenceFloor, with auditLog disabled, returns the sentinel
\* (hash "", deltaWeight 0, note "skipped-low-confidence"), leaves the etch
\* list unchanged, and the returned record is in no recent(limit).
EtchSkip ==
  [][(/\ etchCalls' = etchCalls + 1
      /\ ~auditLog
      /\ RatLess(NormalizedDelta(result'.arg), confidenceFloor)) =>
       /\ result'.value.hash = EmptyHash
       /\ result'.value.deltaWeight = [num |-> 0, den |-> 1]
       /\ result'.value.note = SkippedNote
       /\ etches' = etches
       /\ \A limit \in Limits :
            \A i \in 1..Len(recent(etches', limit)) :
              recent(etches', limit)[i] # result'.value]_vars

EtchSkipWitness ==
  /\ result.op = "applyEtch"
  /\ ~auditLog
  /\ RatLess(NormalizedDelta(result.arg), confidenceFloor)
  /\ result.value.hash = EmptyHash
  /\ Len(etches) = 1
  /\ etchCalls = 2

\* C9: etch append case. An applyEtch call with auditLog enabled, or with a
\* normalized delta >= confidenceFloor, appends exactly one record with a
\* non-empty hash and deltaWeight equal to the normalized delta, returns
\* that record, and it is recent(1)[0].
EtchAppend ==
  [][(/\ etchCalls' = etchCalls + 1
      /\ (auditLog \/ ~RatLess(NormalizedDelta(result'.arg), confidenceFloor))) =>
       /\ etches' = Append(etches, result'.value)
       /\ result'.value.hash # EmptyHash
       /\ RatSame(result'.value.deltaWeight, NormalizedDelta(result'.arg))
       /\ recent(etches', 1) = <<result'.value>>]_vars

EtchAppendWitness ==
  /\ result.op = "applyEtch"
  /\ auditLog
  /\ RatLess(NormalizedDelta(result.arg), confidenceFloor)
  /\ Len(etches) = 2
  /\ etches[2] = result.value

\* C10: etch arithmetic. The delta applyEtch computes is the dot product of
\* context and synthesis over their overlapping prefix divided by the overlap
\* length (by 1 for an empty overlap, giving 0): it is the deltaWeight of
\* every appended record and the value compared with confidenceFloor;
\* [1, 0.5, -0.5, 0.2] and [0.5, 0.5, 0.5, 0.5] give 0.6 / 4 = 0.15.
EtchArithmetic ==
  result.op = "applyEtch" =>
    LET a == result.arg
        r == result.value
    IN /\ r.hash # EmptyHash =>
            /\ r.deltaWeight.den = Scale * Scale * (IF Overlap(a) = 0 THEN 1 ELSE Overlap(a))
            /\ r.deltaWeight.num = SumProducts(a, 1..Overlap(a))
       /\ r.hash = EmptyHash => RatLess(NormalizedDelta(a), confidenceFloor)
       /\ (r.hash # EmptyHash /\ Overlap(a) = 0) => r.deltaWeight.num = 0
       /\ (r.hash # EmptyHash /\ a.context = <<10, 5, -5, 2>>
                              /\ a.synthesisVector = <<5, 5, 5, 5>>) =>
            /\ r.deltaWeight.num = 60
            /\ r.deltaWeight.den = 4 * Scale * Scale
            /\ RatSame(r.deltaWeight, [num |-> 15, den |-> 100])

EtchArithmeticWitness ==
  /\ result.op = "applyEtch"
  /\ result.arg.context = <<10, 5, -5, 2>>
  /\ result.arg.synthesisVector = <<5, 5, 5, 5>>
  /\ result.value.hash # EmptyHash
  /\ RatSame(result.value.deltaWeight, [num |-> 15, den |-> 100])
  /\ etches[Len(etches)] = result.value

\* C11: etch records are never evicted. Every step leaves the earlier etch
\* list as a prefix of the later one (so its length never decreases), and an
\* applyEtch call that is not skipped extends it by exactly the record it
\* returns; no call count makes the list stop growing.
EtchNeverEvicted ==
  [][/\ Len(etches') >= Len(etches)
     /\ SubSeq(etches', 1, Len(etches)) = etches
     /\ (etchCalls' = etchCalls + 1 /\ result'.value.hash # EmptyHash) =>
          etches' = Append(etches, result'.value)
     /\ (etchCalls' = etchCalls + 1 /\ result'.value.hash = EmptyHash) =>
          etches' = etches
     /\ (auditLog /\ etchCalls' = etchCalls + 1) => Len(etches') = etchCalls']_vars

EtchNeverEvictedWitness ==
  /\ etchCalls = MaxEtchCalls
  /\ Len(etches) = MaxEtchCalls
  /\ result.op = "recent"
  /\ result.arg = DefaultLimit
  /\ Len(result.value) = MaxEtchCalls

\* C12: recent(limit), limit >= 0, returns exactly the min(limit, length)
\* most recently appended etch records, newest first.
EtchRecentNewestFirst ==
  (result.op = "recent" /\ result.arg >= 0) =>
    LET m == Min(result.arg, Len(etches))
    IN /\ Len(result.value) = m
       /\ \A i \in 1..m : result.value[i] = etches[Len(etches) + 1 - i]

EmptyStoreReturns ==
  traces = << >> =>
    /\ result.op = "getResonance" =>
         /\ result.value = Miss
         /\ result.threw = NoThrow
    /\ result.op = "getMerkleRoot" =>
         /\ result.value = NoHash
         /\ result.threw = NoThrow
    /\ result.op = "getRecent" =>
         /\ result.value = << >>
         /\ result.threw = NoThrow

EmptyStoreReturnsWitness ==
  /\ traces = << >>
  /\ resonanceThreshold = [n |-> -1, r |-> 4]
  /\ result.op = "getResonance"
  /\ result.arg = <<1, 0>>
  /\ result.value = Miss

\* C18: a zero-magnitude vector is handled without error: the similarity is 0
\* whenever either vector has magnitude 0; a trace recorded with an all-zero
\* context or synthesis vector has weight 0; getResonance with an all-zero
\* query returns { score: 0 } with no trace; a trace with an all-zero context
\* is never returned by getResonance; none of these calls throws.
ZeroMagnitude ==
  /\ \A a \in Queries : \A b \in Queries :
       (getMagnitude(a) = 0 \/ getMagnitude(b) = 0) => cosine(a, b) = Zero
  /\ \A k \in 1..Len(returned) :
       (getMagnitude(returned[k].context) = 0
          \/ getMagnitude(returned[k].synthesisVector) = 0) =>
         returned[k].weight = Zero
  /\ (result.op = "getResonance" /\ getMagnitude(result.arg) = 0) =>
       /\ result.value = Miss
       /\ result.threw = NoThrow
  /\ (result.op = "getResonance" /\ result.value.trace # << >>) =>
       getMagnitude(result.value.trace[1].context) # 0
  /\ (result.op = "recordTrace" /\ getMagnitude(result.arg) = 0) =>
       result.threw = NoThrow

ZeroMagnitudeWitness ==
  /\ \E k \in 1..Len(traces) : getMagnitude(traces[k].context) = 0
  /\ \E k \in 1..Len(traces) :
       /\ getMagnitude(traces[k].context) # 0
       /\ getMagnitude(traces[k].synthesisVector) = 0
       /\ traces[k].weight = Zero
  /\ resonanceThreshold = [n |-> -1, r |-> 4]
  /\ result.op = "getResonance"
  /\ result.arg = <<0, 0>>
  /\ result.value = Miss

\* the fields of a trace the claim names as the inputs of its hash
HashedFields(t) ==
  <<t.id, t.context, t.synthesisVector, t.metadata, t.weight, t.parentHash>>

\* C21: every resident trace's hash is H of exactly its own id, context,
\* synthesisVector, metadata, weight and parentHash (timestamp and cached
\* magnitude are not inputs), so traces equal on those fields have equal
\* hashes.
HashInvariant ==
  /\ \A k \in 1..Len(traces) : traces[k].hash = HashedFields(traces[k])
  /\ \A i \in 1..Len(returned) : \A j \in 1..Len(returned) :
       HashedFields(returned[i]) = HashedFields(returned[j]) =>
         returned[i].hash = returned[j].hash

HashInvariantWitness ==
  /\ Len(traces) = 2
  /\ traces[1].metadata = "bootstrap"
  /\ traces[2].parentHash = traces[1].hash
  /\ traces[2].timestamp # traces[1].timestamp
  /\ traces[2].magnitude # traces[1].magnitude
  /\ traces[2].hash = HashedFields(traces[2])

\* C26: resident chain links survive eviction: every resident trace other
\* than the oldest resident one has the hash of the resident trace just
\* before it as its parentHash, and a recorded trace has no parentHash only
\* if the store was empty when it was inserted.
ResidentChain ==
  [][/\ \A k \in 2..Len(traces') : traces'[k].parentHash = traces'[k - 1].hash
     /\ (Len(returned') = Len(returned) + 1
           /\ returned'[Len(returned')].parentHash = NoHash) => traces = << >>]_vars

ResidentChainWitness ==
  /\ maxTraces = 2
  /\ Len(returned) = 3
  /\ Len(traces) = 2
  /\ traces[1].parentHash = returned[1].hash
  /\ traces[2].parentHash = traces[1].hash

\* C27: eviction does not rewrite the chain: once a trace has been evicted
\* the resident traces are the last recorded ones with every field as
\* recorded, the oldest resident trace carries a parentHash that is the hash
\* of no resident trace, and the results of recordTrace and getMerkleRoot
\* are the new trace and the last hash, with nothing that tells of it.
EvictionKeepsChain ==
  Len(returned) > Len(traces) =>
    /\ traces = SubSeq(returned, Len(returned) - Len(traces) + 1, Len(returned))
    /\ traces[1].parentHash # NoHash
    /\ \A k \in 1..Len(traces) : traces[k].hash # traces[1].parentHash
    /\ (result.op = "recordTrace" /\ result.threw = NoThrow) =>
         result.value = returned[Len(returned)]
    /\ result.op = "getMerkleRoot" => result.value = traces[Len(traces)].hash

EvictionKeepsChainWitness ==
  /\ maxTraces = 1
  /\ Len(returned) = 2
  /\ traces = <<returned[2]>>
  /\ traces[1].parentHash = returned[1].hash
  /\ result.op = "recordTrace"
  /\ result.value = returned[2]

\* C28: when several resident traces attain the highest score for a query
\* and getResonance returns a trace, it returns the one appended earliest
\* among them.
TieBreaking ==
  (result.op = "getResonance" /\ result.value.trace # << >>) =>
    \E k \in TopTraces(result.arg) :
      /\ result.value.trace[1] = traces[k]
      /\ \A j \in TopTraces(result.arg) : k <= j

TieBreakingWitness ==
  /\ result.op = "getResonance"
  /\ result.value.trace # << >>
  /\ Len(traces) = 2
  /\ TopTraces(result.arg) = {1, 2}
  /\ result.value.trace[1] = traces[1]

SquaredNorm(tensor) ==
  [num |-> SumSeq([i \in 1..Len(tensor) |-> tensor[i].n * tensor[i].n]),
   den |-> tensor[1].r]

\* C14: with normalize = true the tensor encode returns for a non-empty text
\* has Euclidean norm 1, for every dimension D > 0 (exactly, in real
\* arithmetic: the sum of the squared components is 1).
EncodeUnitNorm ==
  \A k \in 1..Len(encoded) :
    (encoder[1].normalize /\ length(encoded[k].text) > 0) =>
      LET t == encoded[k].tensor
      IN /\ Len(t) = encoder[1].dimensions
         /\ \A i \in 1..Len(t) : t[i].r = t[1].r
         /\ SquaredNorm(t).num = SquaredNorm(t).den

EncodeUnitNormWitness ==
  /\ encoder # << >>
  /\ encoder[1].normalize
  /\ encoder[1].dimensions = 34
  /\ result.op = "encode"
  /\ result.arg = "crystalline entropy"
  /\ SquaredNorm(result.value).num = SquaredNorm(result.value).den

\* C15: estimateEntropy(t) >= entropyFloor for every tensor t of any length
\* and every entropyFloor >= 0.
EntropyAtLeastFloor ==
  result.op = "estimateEntropy" =>
    ~EntLess(result.value, encoder[1].entropyFloor)

\* C16: constructing an encoder raises ConfigurationError exactly when
\* dimensions <= 0, and no other operation ever raises.
OnlyConstructionRaises ==
  /\ result.op = "new NovaNeoEncoder" =>
       /\ result.arg.dimensions <= 0 => result.threw = "ConfigurationError"
       /\ result.arg.dimensions > 0 => result.threw = NoThrow
  /\ result.op # "new NovaNeoEncoder" => result.threw = NoThrow

\* C24: encode builds the diagnostic payload (input length, dimension,
\* entropy estimate, tensor hash) only when debug-level logging is enabled:
\* with debug disabled no payload is ever built, whatever is encoded.
LazyDiagnostics ==
  /\ ~debugEnabled => log = << >>
  /\ Len(log) <= Len(encoded)

LazyDiagnosticsWitness ==
  /\ ~debugEnabled
  /\ Len(encoded) = 2
  /\ encoder[1].dimensions = 34
  /\ result.op = "encode"
  /\ log = << >>

\* the linear transform (byte / 255) * 2 - 1 of a digest byte
Transform(byte) == [n |-> 2 * byte - ByteMax, r |-> ByteMax * ByteMax]

\* C29: encode returns a tensor of exactly D components; before
\* normalization component i is the transform of digest byte i mod 32
\* (normalization divides every component by the same norm), so components
\* i and i + 32 are equal whenever i + 32 < D, normalized or not.
EncoderFill ==
  \A k \in 1..Len(encoded) :
    LET t == encoded[k].tensor
        digest == sha256(encoded[k].text)
        D == encoder[1].dimensions
    IN /\ Len(t) = D
       /\ \A i \in 0..(D - 1) :
            /\ t[i + 1].n = Transform(digest[(i % HashLen) + 1]).n
            /\ ~encoder[1].normalize => t[i + 1] = Transform(digest[(i % HashLen) + 1])
            /\ i + HashLen < D => t[i + 1] = t[i + HashLen + 1]

EncoderFillWitness ==
  /\ result.op = "encode"
  /\ result.arg = ""
  /\ encoder[1].normalize
  /\ Len(result.value) = 65
  /\ result.value[1] = result.value[33]
  /\ result.value[33] = result.value[65]
  /\ result.value[1] # result.value[32]

\* the variance of the absolute component values of a tensor, as
\* [num, den, r]; 0 for the tensor with no components
Variance(t) ==
  IF Len(t) = 0 THEN EntZero
  ELSE LET len == Len(t)
           total == SumSeq([i \in 1..len |-> Abs(t[i].n)])
       IN [num |-> SumSeq([i \in 1..len |->
                     (len * Abs(t[i].n) - total) * (len * Abs(t[i].n) - total)]),
           den |-> len * len * len,
           r |-> t[1].r]

\* C30: for every tensor, estimateEntropy returns the variance of the
\* absolute component values when that variance is >= entropyFloor, and
\* entropyFloor otherwise.
EntropyIsFlooredVariance ==
  result.op = "estimateEntropy" =>
    IF EntLess(Variance(result.arg), encoder[1].entropyFloor)
    THEN result.value = encoder[1].entropyFloor
    ELSE result.value = Variance(result.arg)

\* ------------------------------------------------------------- instance claims
StoreOps == {"recordTrace", "getResonance", "getMerkleRoot", "getRecent"}
EtchOps == {"applyEtch", "recent"}

\* C22: records are immutable and queries read-only: getResonance,
\* getMerkleRoot, getRecent and recent leave the contents and the order of
\* every list as they were; recordTrace changes a trace list only by
\* appending the new trace and possibly removing the oldest, applyEtch an
\* etch list only by appending the new record; so no record already in a
\* list is ever changed.
ReadOnlyQueries ==
  [][/\ result'.op \in {"getResonance", "getMerkleRoot", "getRecent", "recent"} =>
          /\ stores' = stores
          /\ accumulators' = accumulators
     /\ result'.op = "recordTrace" =>
          /\ accumulators' = accumulators
          /\ \A i \in Instances :
               stores'[i] \in { stores[i],
                                Append(stores[i], result'.value),
                                Tail(Append(stores[i], result'.value)) }
     /\ result'.op = "applyEtch" =>
          /\ stores' = stores
          /\ \A i \in Instances :
               accumulators'[i] \in { accumulators[i],
                                      Append(accumulators[i], result'.value) }]_vars

ReadOnlyQueriesWitness ==
  /\ result.op = "getRecent"
  /\ result.self = 1
  /\ Len(stores[1]) = 2
  /\ result.value = <<stores[1][2], stores[1][1]>>
  /\ Len(returned) = 3
  /\ returned[1].id # stores[1][1].id

\* C25: each instance owns its list: an operation on one StigmergyV5 or
\* HolographicEtch instance leaves the contents, the Merkle root and the
\* query results of every other instance as they were.
InstanceIsolation ==
  [][\A i \in Instances :
       /\ ((result'.op \in StoreOps /\ result'.self # i) \/ result'.op \in EtchOps) =>
            /\ stores'[i] = stores[i]
            /\ getMerkleRoot(stores'[i]) = getMerkleRoot(stores[i])
            /\ \A q \in Queries :
                 getResonance(stores'[i], resonanceThreshold, q)
                   = getResonance(stores[i], resonanceThreshold, q)
       /\ ((result'.op \in EtchOps /\ result'.self # i) \/ result'.op \in StoreOps) =>
            /\ accumulators'[i] = accumulators[i]
            /\ recent(accumulators'[i], DefaultLimit)
                 = recent(accumulators[i], DefaultLimit)]_vars

InstanceIsolationWitness ==
  /\ Len(stores[1]) = 1
  /\ Len(stores[2]) = 1
  /\ Len(accumulators[2]) = 1
  /\ accumulators[1] = << >>
  /\ result.op = "getMerkleRoot"
  /\ result.self = 1
  /\ result.value = stores[1][1].hash
  /\ result.value # stores[2][1].hash

\* ------------------------------------------------------------- port claims
\* some two recorded traces carry the same present parentHash
SharedParent ==
  \E i \in 1..Len(returned) : \E j \in 1..Len(returned) :
    /\ i < j
    /\ returned[i].parentHash # NoHash
    /\ returned[i].parentHash = returned[j].parentHash

\* C20: when the steps of recordTrace (read last hash, compute new hash,
\* append, possibly evict) run as one atomic critical section, no two traces
\* recorded by the store carry the same present parentHash; when two
\* concurrent calls interleave the steps, such a state is reachable (the
\* witness).
AtomicRecordTrace == atomic => ~SharedParent

AtomicRecordTraceWitness ==
  /\ ~atomic
  /\ SharedParent
  /\ \A c \in Callers : pc[c] = "idle"

\* ------------------------------------------------------------- revision claims
\* a trace as stored by a revision without the cache: no magnitude field
Uncached(trace) == [f \in DOMAIN trace \ {"magnitude"} |-> trace[f]]

UncachedResult(r) ==
  [score |-> r.score,
   trace |-> IF r.trace = << >> THEN << >> ELSE <<Uncached(r.trace[1])>>]

\* every resident context has the query's number of components
SameDimension(ts, q) == \A k \in 1..Len(ts) : Len(ts[k].context) = Len(q)

\* C31: every resident trace's cached magnitude is the magnitude of its
\* context; on the same traces without the cached field getResonance
\* recomputes it and returns the same score and the same trace; and when
\* all resident contexts and the query share one dimension, the result of
\* getResonance is the score and the trace the original revision (both
\* norms recomputed for every comparison) returns.
CachedMagnitudeIsPure ==
  /\ \A k \in 1..Len(traces) :
       /\ "magnitude" \in DOMAIN traces[k]
       /\ traces[k].magnitude = Dot(traces[k].context, traces[k].context,
                                   Len(traces[k].context))
  /\ result.op = "getResonance" =>
       /\ getResonance([k \in 1..Len(traces) |-> Uncached(traces[k])],
                       resonanceThreshold, result.arg)
            = UncachedResult(result.value)
       /\ SameDimension(traces, result.arg) =>
            LET orig == originalGetResonance(traces, resonanceThreshold, result.arg)
            IN /\ Same(result.value.score, orig.score)
               /\ result.value.trace = orig.trace

CachedMagnitudeIsPureWitness ==
  /\ Len(traces) = 2
  /\ traces[1].context = <<1, 1>>
  /\ traces[1].magnitude = 2
  /\ traces[2].context = <<2, 0>>
  /\ result.op = "getResonance"
  /\ result.arg = <<1, 0>>
  /\ SameDimension(traces, result.arg)
  /\ result.value.trace = <<traces[2]>>
  /\ originalGetResonance(traces, resonanceThreshold, result.arg).trace = <<traces[2]>>

\* C32: for every digest, every dimension D > 0 and normalize on or off, the
\* tensor the optimised encode computes (squared norm from fullCycles *
\* hashSumSquares plus the first D mod 32 squares) is the tensor the earlier
\* encode computes (squared norm accumulated component by component).
EncoderRevisionsAgree ==
  result.op = "encode" =>
    result.rounded = earlierEncode(encoder[1].dimensions, encoder[1].normalize,
                                   result.arg)

\* where the two revisions do agree: without normalization, or below two
\* full cycles of the digest, both make the same additions in the same order
EncoderRevisionsAgreeBelowTwoCycles ==
  (result.op = "encode" /\ (~encoder[1].normalize \/ encoder[1].dimensions < 2 * HashLen)) =>
    result.rounded = earlierEncode(encoder[1].dimensions, encoder[1].normalize,
                                   result.arg)

\* C33: every component of a tensor encode returns is, before normalization,
\* (2 * byte - 255) / 255 for a byte of 0..255: it lies in [-1, 1] and is
\* never 0, 2 * byte - 255 being odd; hence for D >= 1 the squared norm is
\* strictly positive and a normalizing encode divides by the norm itself,
\* never by the fallback divisor 1 of a zero norm.
ByteTransformRange ==
  \A k \in 1..Len(encoded) :
    LET t == encoded[k].tensor
        squares == SumSeq([i \in 1..Len(t) |-> t[i].n * t[i].n])
    IN /\ Len(t) >= 1
       /\ \A i \in 1..Len(t) :
            /\ t[i].n % 2 = 1
            /\ t[i].n # 0
            /\ 0 - ByteMax <= t[i].n
            /\ t[i].n <= ByteMax
            /\ t[i].r = IF encoder[1].normalize THEN squares ELSE ByteMax * ByteMax
       /\ squares > 0

ByteTransformRangeWitness ==
  /\ encoder # << >>
  /\ encoder[1].normalize
  /\ encoder[1].dimensions = 8
  /\ result.op = "encode"
  /\ result.arg = "crystalline entropy"
  /\ result.value[4] = [n |-> 1, r |-> 168]
  /\ encoded[Len(encoded)].tensor = result.value

\* ------------------------------------------------------------- store claims, continued
\* C34: whatever resonanceThreshold is configured, a result of getResonance
\* that carries a trace has a score > 0; and when the cosine of the query
\* with every resident trace is <= 0, getResonance returns {score: 0} and no
\* trace.
NoNonPositiveHit ==
  result.op = "getResonance" =>
    /\ result.value.trace # << >> => Less(Zero, result.value.score)
    /\ (\A k \in 1..Len(traces) :
          ~Less(Zero, cosine(result.arg, traces[k].context))) =>
         (result.value.score = Zero /\ result.value.trace = << >>)

NoNonPositiveHitWitness ==
  /\ resonanceThreshold = [n |-> -1, r |-> 4]
  /\ Len(traces) = 2
  /\ traces[1].context = <<1, 0>>
  /\ traces[2].context = <<1, 1>>
  /\ result.op = "getResonance"
  /\ result.arg = <<0, -1>>
  /\ Same(cosine(result.arg, traces[1].context), Zero)
  /\ GEq(cosine(result.arg, traces[1].context), resonanceThreshold)
  /\ Less(cosine(result.arg, traces[2].context), Zero)
  /\ result.value = Miss

\* C35: with maxTraces >= 1, once a trace has been recorded the store is
\* never empty again, and among all the traces recordTrace has returned
\* exactly the first has an absent parentHash.
NeverEmptyAgain ==
  maxTraces >= 1 =>
    /\ Len(returned) >= 1 => traces # << >>
    /\ \A k \in 1..Len(returned) : (returned[k].parentHash = NoHash) <=> (k = 1)

NeverEmptyAgainWitness ==
  /\ maxTraces = 1
  /\ Len(returned) = 3
  /\ traces = <<returned[3]>>
  /\ returned[1].parentHash = NoHash
  /\ returned[2].parentHash = returned[1].hash
  /\ returned[3].parentHash = returned[2].hash
  /\ result.op = "recordTrace"
  /\ result.threw = NoThrow

\* ------------------------------------------------------------- reference claims
\* a trace object read through its references: what the store's readers see now
traceContent(h, t) ==
  [t EXCEPT !.context = h[t.context].items,
            !.synthesisVector = h[t.synthesisVector].items,
            !.metadata = IF t.metadata = Undefined THEN NoMeta ELSE h[t.metadata].entries]

\* C36: recordTrace makes no defensive copy.  Every resident trace holds the
\* caller's own context, synthesisVector and metadata objects, and the trace
\* recordTrace returns (and those getRecent returns) is the resident object
\* itself; so after the caller writes into an array it passed, the resident
\* trace shows the written value, while its hash, weight and cached
\* magnitude stay as computed at insertion; the hash is H of the trace's
\* fields as long as what its references hold is what was inserted.
NoDefensiveCopy ==
  /\ \A i \in 1..Len(traces) :
       LET t == heap[traces[i]]
       IN /\ t.context \in CallerArrays
          /\ t.synthesisVector \in CallerArrays
          /\ t.metadata \in CallerObjects \cup {Undefined}
          /\ \E k \in 1..Len(returned) :
               /\ returned[k].id = t.id
               /\ t.hash = returned[k].hash
               /\ t.weight = returned[k].weight
               /\ t.magnitude = returned[k].magnitude
               /\ traceContent(heap, t) = returned[k] =>
                    t.hash = HashedFields(traceContent(heap, t))
          /\ (result.op = "write" /\ t.context = result.arg.ref) =>
               traceContent(heap, t).context[result.arg.index] = result.value
          /\ (result.op = "edit" /\ t.metadata = result.arg) =>
               traceContent(heap, t).metadata = result.value
  /\ (result.op = "recordTrace" /\ result.threw = NoThrow) =>
       /\ result.value = traces[Len(traces)]
       /\ heap[result.value].context = result.arg.context
       /\ heap[result.value].synthesisVector = result.arg.synthesisVector
       /\ heap[result.value].metadata = result.arg.metadata
  /\ result.op = "getRecent" =>
       \A j \in 1..Len(result.value) : \E i \in 1..Len(traces) :
         result.value[j] = traces[i]

\* after a caller's write the resident trace no longer satisfies the hash
\* invariant: its content has changed, its hash and cached magnitude have not
NoDefensiveCopyWitness ==
  /\ result.op = "write"
  /\ Len(traces) = 1
  /\ Len(returned) = 1
  /\ heap[traces[1]].context = result.arg.ref
  /\ returned[1].context = <<1, 0>>
  /\ traceContent(heap, heap[traces[1]]).context = <<3, 0>>
  /\ heap[traces[1]].hash = returned[1].hash
  /\ heap[traces[1]].hash # HashedFields(traceContent(heap, heap[traces[1]]))
  /\ heap[traces[1]].magnitude = 1
  /\ heap[traces[1]].magnitude # Dot(<<3, 0>>, <<3, 0>>, 2)
====
